---- MODULE Spec2Model ----
(***************************************************************************)
(* SyncD2D comparison-and-copy engine (src/file_sync.py): FileInfo,        *)
(* SyncState (the resume ledger), copy_file_with_retry, copy_single_file   *)
(* and sync_drives, as a state machine over a source tree, a destination   *)
(* tree and the state file.                                                *)
(***************************************************************************)
EXTENDS Integers, Sequences, FiniteSets, TLC

\* ---------------------------------------------------------------- bounds
NPaths == 2        \* files of a small source tree
BigN == 101        \* files of the large source tree (longer than SAVE_EVERY)
MaxSize == 2       \* largest file size compared by the needs_update check
MaxTime == 5       \* largest modification time compared by the check
NKeys == 4         \* relative paths of the two trees compare_drives scans
NTasks == 3        \* tasks submitted to the worker pool at once
NThreads == 3      \* threads calling FileSyncStats.increment at once
MaxDepth == 2      \* deepest directory of a named tree below its root

\* ------------------------------------------------------ program constants
MAX_WORKERS == 4
RETRIES == 3
MTIME_TOLERANCE == 2
SAVE_EVERY == 100
PROGRESS_EVERY == 10

\* files of the source tree copied by the worker pool: the least number
\* with a progress report before the last one
NMid == PROGRESS_EVERY + 1

\* modification time of the files of the source tree
SRC_MTIME == 5

VARIABLES
    srcFS,          \* source tree: path -> file
    dstFS,          \* destination tree: path -> file
    roots,          \* whether the two root directories exist
    stateFile,      \* sync_state.json on disk
    pc,             \* position of sync_drives
    opts,           \* dry_run, verify_hash, resume, parallel of the run
    stats,          \* FileSyncStats of the run
    state,          \* SyncState of the run (None when resume is off)
    source_files,   \* scan result of the source, in insertion order
    files_to_copy,  \* the plan
    futures,        \* per task: progress of copy_single_file and its result
    i,              \* results consumed by the copy loop
    reliable,       \* the storage never fails an I/O operation
    loaded,         \* the set SyncState.load produced for this run
    saveCount,      \* calls of SyncState.save in this run
    outOfBand,      \* destination changed outside the program since the run
    cmp,            \* inputs and result of one needs_update evaluation
    cancelled,      \* KeyboardInterrupt was raised during this run's scans
    walk,           \* a named tree, and the result of one scan of it
    dest_files,     \* scan result of the destination, keyed by path
    dest_drive,     \* the parts of the destination root's path
    progress,       \* the calls of print_progress made by the copy loop
    diff,           \* two scanned trees and what compare_drives derives
    inc,            \* threads inside FileSyncStats.increment, and the lock
    pool            \* the threads of the worker pool around the ledger

vars == <<srcFS, dstFS, roots, stateFile, pc, opts, stats, state,
          source_files, files_to_copy, futures, i, reliable,
          loaded, saveCount, outOfBand, cmp, cancelled, walk,
          dest_files, dest_drive, progress, diff, inc, pool>>

\* ------------------------------------------------------------------ files
\* a file: what stat reports, what is read from it, and whether open() for
\* reading or writing succeeds on it
Absent == [exists |-> FALSE, size |-> 0, mtime |-> 0, content |-> "none",
           readable |-> TRUE]

SizeOf(c) == IF c = "part" THEN 0 ELSE IF c \in {"CC", "DD"} THEN 2 ELSE 1

File(c, m) == [exists |-> TRUE, size |-> SizeOf(c), mtime |-> m, content |-> c,
               readable |-> TRUE]

\* the file after its permission bits were cleared: stat still answers
Unreadable(f) == [f EXCEPT !.readable = FALSE]

\* FileInfo.__init__: stat of a path; size 0, mtime 0, exists False on error
FileInfo(fs, p) == IF p \in DOMAIN fs THEN fs[p] ELSE Absent

Abs(x) == IF x < 0 THEN -x ELSE x

needs_update_always(self, other) == TRUE

needs_update_ge(self, other) ==
    IF ~other.exists THEN TRUE
    ELSE IF self.size # other.size THEN TRUE
    ELSE IF Abs(self.mtime - other.mtime) >= MTIME_TOLERANCE THEN TRUE
    ELSE FALSE

\* FileInfo.needs_update
needs_update(self, other) ==
    IF ~other.exists THEN TRUE
    ELSE IF self.size # other.size THEN TRUE
    ELSE IF Abs(self.mtime - other.mtime) > MTIME_TOLERANCE THEN TRUE
    ELSE FALSE

\* FileInfo.calculate_hash: None when the file does not exist, and None
\* from the except clause when it cannot be opened
calculate_hash(f) == IF ~f.exists \/ ~f.readable THEN "None" ELSE f.content

\* ------------------------------------------------------------- SyncState
Missing == [kind |-> "missing", files |-> {}]
Truncated == [kind |-> "corrupt", files |-> {}]

\* a state file that parses as JSON without being what save writes: an
\* object with no completed_files member, a document that is no object, and
\* an object whose completed_files is itself an object with the given keys
NoKey == [kind |-> "nokey", files |-> {}]
NotObject == [kind |-> "notobject", files |-> {}]
Mapping(keys) == [kind |-> "mapping", files |-> keys]

\* SyncState.load: set(data.get('completed_files', [])) of the parsed file,
\* which for a list is the set of its members and for an object the set of
\* its keys; the empty set when the file is missing, when json.load raises,
\* when the member is absent and when the document has no get
load(file) == IF file.kind \in {"valid", "mapping"} THEN file.files ELSE {}

save_all_but_one(completed_files, interrupted) ==
    IF interrupted THEN Truncated
    ELSE [kind |-> "valid",
          files |-> IF completed_files = {} THEN {}
                    ELSE completed_files \
                           {CHOOSE p \in completed_files :
                               \A q \in completed_files : p >= q}]

\* SyncState.save: open(..., 'w') truncates the file, json.dump rewrites it
\* wholesale; a process interrupted in between leaves the truncated file
save(completed_files, interrupted) ==
    IF interrupted THEN Truncated
    ELSE [kind |-> "valid", files |-> completed_files]

is_completed_never(completed_files, relative_path) == FALSE

\* SyncState.is_completed
is_completed(completed_files, relative_path) ==
    relative_path \in completed_files

mark_completed_noop(completed_files, relative_path) == completed_files

mark_completed_replaces(completed_files, relative_path) == {relative_path}

\* SyncState.mark_completed
mark_completed(completed_files, relative_path) ==
    completed_files \cup {relative_path}

NoState == [active |-> FALSE, completed_files |-> {}]

\* ------------------------------------------------------------ FileSyncStats
ZeroStats == [scanned_files |-> 0, new_files |-> 0, updated_files |-> 0,
              copied_files |-> 0, failed_files |-> 0, skipped_files |-> 0,
              total_size |-> 0, copied_size |-> 0]

RECURSIVE SumRange(_, _, _)
SumRange(s, lo, hi) ==
    IF lo > hi THEN 0
    ELSE IF lo = hi THEN s[lo].size
    ELSE LET mid == (lo + hi) \div 2
         IN SumRange(s, lo, mid) + SumRange(s, mid + 1, hi)

\* sum of the sizes of the records of a sequence
SumSize(s) == SumRange(s, 1, Len(s))

EXCLUDED_FOLDERS ==
    {"$RECYCLE.BIN", "System Volume Information", "Recovery", "$WinREAgent",
     "hiberfil.sys", "pagefile.sys", "swapfile.sys", "Windows",
     "Program Files", "Program Files (x86)", "ProgramData"}

EXCLUDED_EXTENSIONS == {".tmp", ".temp", ".cache", ".lock"}

\* the directory and file names of the trees scanned
DirNames == {"docs", "Recovery", "recovery", "old.cache"}
FileNames == {"a.txt", "b.tmp", "c.TMP", ".lock"}

\* Path.suffix of a name: from the last dot on, unless that dot is the first
\* or the last character of the name
suffix(name) ==
    CASE name = "a.txt" -> ".txt"
      [] name = "b.tmp" -> ".tmp"
      [] name = "c.TMP" -> ".TMP"
      [] name = "old.cache" -> ".cache"
      [] OTHER -> ""

\* str.lower on the suffixes above
lower(s) == CASE s = ".TMP" -> ".tmp" [] OTHER -> s

should_exclude_case_sensitive(path) ==
    \/ \E n \in DOMAIN path : path[n] \in EXCLUDED_FOLDERS
    \/ suffix(path[Len(path)]) \in EXCLUDED_EXTENSIONS

\* should_exclude on the parts of a path: a part is a denylisted folder
\* name, or the suffix of the last part, lowered, is a denylisted extension
\* (the trees hold no file with the hidden attribute)
should_exclude(path) ==
    \/ \E n \in DOMAIN path : path[n] \in EXCLUDED_FOLDERS
    \/ lower(suffix(path[Len(path)])) \in EXCLUDED_EXTENSIONS

\* the parts of the relative path of file p of a numbered tree: names that
\* no rule of should_exclude matches
parts(p) == <<"docs", "a.txt">>

\* scan_drive_fast(dest_drive, dest_stats): one record per file below the
\* destination root that should_exclude does not reject, keyed by relative
\* path; should_exclude is given the whole path, the root's parts included
scan_dest(drive_path, fs) ==
    LET keys == {p \in DOMAIN fs :
                    /\ fs[p].exists
                    /\ ~should_exclude(drive_path \o parts(p))}
    IN [p \in keys |-> fs[p]]

\* scan_drive_fast: one record per file of the tree, keyed by relative path,
\* in traversal order (ascending path)
scan_drive_fast(fs) ==
    LET Exists(e) == e.exists
    IN SelectSeq([p \in 1..Len(fs) |->
                    [path |-> p, size |-> fs[p].size, mtime |-> fs[p].mtime,
                     exists |-> fs[p].exists, content |-> fs[p].content]],
                 Exists)

\* --------------------------------------------------------- initial states
SrcOf(p) == IF p % 2 = 1 THEN File("A", SRC_MTIME) ELSE File("CC", SRC_MTIME)

OtherContent(c) == IF c = "A" THEN "B" ELSE "DD"

\* the first destination file is absent, identical, equal in content but
\* older than the tolerance, or equal in size but different in content and
\* older; the others are absent or equal in content but older
DstChoices(p) ==
    IF p = 1
    THEN {Absent, SrcOf(p),
          File(SrcOf(p).content, SRC_MTIME - 3),
          File(OtherContent(SrcOf(p).content), SRC_MTIME - 3)}
    ELSE {Absent, File(SrcOf(p).content, SRC_MTIME - 3)}

NoFuture == [st |-> "pending", attempt |-> 0, success |-> FALSE, size |-> 0,
             how |-> "none"]

NoOpts == [dry_run |-> TRUE, verify_hash |-> FALSE, resume |-> TRUE,
           parallel |-> TRUE]

NoCmp == [s |-> Absent, d |-> Absent, done |-> FALSE, res |-> FALSE]

NoDiff == [files1 |-> <<>>, files2 |-> <<>>, done |-> FALSE,
           only_in_1 |-> {}, only_in_2 |-> {}, in_both |-> {},
           different |-> {}]

NoPool == [task |-> <<>>, success |-> <<>>, marked |-> <<>>,
           main |-> "wait", cur |-> 0, inside |-> {}, copied_files |-> 0,
           completed_files |-> {}, saves |-> 0]

NoInc == [lock |-> 0, thread |-> <<>>, value |-> <<>>, initial |-> <<>>]

\* a destination drive, and a destination directory below a denylisted one
DestDrives == {<<"E:">>, <<"E:", "Recovery", "backup">>}

NoWalk == [drive_path |-> <<>>, tree |-> {}, denied |-> {},
           exists |-> FALSE,
           done |-> FALSE, visited |-> {}, files_dict |-> {},
           stats0 |-> [scanned_files |-> 0, total_size |-> 0],
           stats |-> [scanned_files |-> 0, total_size |-> 0],
           raised |-> FALSE]

InitRun ==
    /\ pc = "idle"
    /\ opts = NoOpts
    /\ stats = ZeroStats
    /\ state = NoState
    /\ source_files = <<>>
    /\ files_to_copy = <<>>
    /\ futures = <<>>
    /\ i = 0
    /\ loaded = {}
    /\ saveCount = 0
    /\ outOfBand = FALSE
    /\ cancelled = FALSE
    /\ dest_files = <<>>
    /\ progress = <<>>

\* a small source tree against every destination of DstChoices
InitSmall ==
    /\ dest_drive = <<"E:">>
    /\ roots = [src |-> TRUE, dst |-> TRUE]
    /\ srcFS = [p \in 1..NPaths |-> SrcOf(p)]
    /\ dstFS \in [1..NPaths -> UNION {DstChoices(p) : p \in 1..NPaths}]
    /\ \A p \in 1..NPaths : dstFS[p] \in DstChoices(p)
    /\ reliable = FALSE
    /\ stateFile = Missing

\* one of the two roots does not exist; the other holds files, and a state
\* file may be left from an earlier run
InitNoRoot ==
    /\ dest_drive = <<"E:">>
    /\ roots \in {[src |-> FALSE, dst |-> TRUE], [src |-> TRUE, dst |-> FALSE]}
    /\ srcFS = [p \in 1..NPaths |-> IF roots.src THEN SrcOf(p) ELSE Absent]
    /\ dstFS = [p \in 1..NPaths |->
                IF roots.dst THEN File(SrcOf(p).content, SRC_MTIME - 3)
                ELSE Absent]
    /\ reliable = FALSE
    /\ stateFile \in {Missing, [kind |-> "valid", files |-> {1}]}

\* the state files a run can find besides none: unparsable, parsable without
\* the structure save writes, and well-formed
LedgerFiles ==
    {Truncated, NoKey, NotObject, Mapping({1}),
     [kind |-> "valid", files |-> {1}]}

\* a small source tree against an empty destination on reliable storage,
\* with a state file already in the working directory
InitLedger ==
    /\ dest_drive = <<"E:">>
    /\ roots = [src |-> TRUE, dst |-> TRUE]
    /\ srcFS = [p \in 1..NPaths |-> SrcOf(p)]
    /\ dstFS = [p \in 1..NPaths |-> Absent]
    /\ reliable = TRUE
    /\ stateFile \in LedgerFiles

\* a small source tree on reliable storage against a destination whose root
\* lies below a denylisted directory and holds an identical first file and
\* older other files
InitBelowExcluded ==
    /\ dest_drive = <<"E:", "Recovery", "backup">>
    /\ roots = [src |-> TRUE, dst |-> TRUE]
    /\ srcFS = [p \in 1..NPaths |-> SrcOf(p)]
    /\ dstFS = [p \in 1..NPaths |->
                IF p = 1 THEN SrcOf(p)
                ELSE File(SrcOf(p).content, SRC_MTIME - 3)]
    /\ reliable = TRUE
    /\ stateFile = Missing

\* a small source tree on reliable storage whose first file, the older
\* destination file of the same size and another content, or both, cannot be
\* opened by the user who runs the sync
InitUnreadable ==
    /\ dest_drive = <<"E:">>
    /\ roots = [src |-> TRUE, dst |-> TRUE]
    /\ \E u \in {"src", "dst", "both"} :
        /\ srcFS = [p \in 1..NPaths |->
                    IF p = 1 /\ u \in {"src", "both"}
                    THEN Unreadable(SrcOf(p)) ELSE SrcOf(p)]
        /\ dstFS = [p \in 1..NPaths |->
                    IF p # 1 THEN Absent
                    ELSE IF u \in {"dst", "both"}
                    THEN Unreadable(File(OtherContent(SrcOf(p).content),
                                         SRC_MTIME - 3))
                    ELSE File(OtherContent(SrcOf(p).content), SRC_MTIME - 3)]
    /\ reliable = TRUE
    /\ stateFile = Missing

\* a large source tree against an empty destination, on reliable storage
InitBig ==
    /\ dest_drive = <<"E:">>
    /\ roots = [src |-> TRUE, dst |-> TRUE]
    /\ srcFS = [p \in 1..BigN |-> File("A", SRC_MTIME)]
    /\ dstFS = [p \in 1..BigN |-> Absent]
    /\ reliable = TRUE
    /\ stateFile = Missing

\* a source tree of more than PROGRESS_EVERY files against an empty
\* destination, on reliable storage
InitMid ==
    /\ dest_drive = <<"E:">>
    /\ roots = [src |-> TRUE, dst |-> TRUE]
    /\ srcFS = [p \in 1..NMid |-> File("A", SRC_MTIME)]
    /\ dstFS = [p \in 1..NMid |-> Absent]
    /\ reliable = TRUE
    /\ stateFile = Missing

Init ==
    /\ InitRun
    /\ cmp = NoCmp
    /\ walk = NoWalk
    /\ diff = NoDiff
    /\ inc = NoInc
    /\ pool = NoPool
    /\ (InitSmall \/ InitNoRoot \/ InitLedger \/ InitBelowExcluded
           \/ InitUnreadable \/ InitBig)

\* the options a caller passes; the large tree is run sequentially with resume
Options ==
    IF Len(srcFS) > NMid
    THEN {[dry_run |-> FALSE, verify_hash |-> FALSE, resume |-> TRUE,
           parallel |-> FALSE]}
    ELSE IF Len(srcFS) > NPaths
    THEN [dry_run : {FALSE}, verify_hash : {FALSE}, resume : {FALSE},
          parallel : BOOLEAN]
    ELSE [dry_run : BOOLEAN, verify_hash : BOOLEAN, resume : BOOLEAN,
          parallel : BOOLEAN]

\* ------------------------------------------------------------ sync_drives
\* the states in which no sync_drives call is on the stack
Returned_pcs == {"idle", "done", "refused", "killed", "cancelled", "cleared"}

roots_exist_source_only(r) == r.src

\* the two root checks: source_drive.exists() and dest_drive.exists()
roots_exist(r) == r.src /\ r.dst

\* entry of sync_drives: stats, SyncState() if resume, the two root checks
Invoke ==
    /\ pc \in Returned_pcs
    /\ \E o \in Options :
        /\ opts' = o
        /\ state' = IF o.resume
                    THEN [active |-> TRUE, completed_files |-> load(stateFile)]
                    ELSE NoState
        /\ loaded' = IF o.resume THEN load(stateFile) ELSE {}
    /\ stats' = ZeroStats
    /\ pc' = IF roots_exist(roots) THEN "scan" ELSE "refused"
    /\ source_files' = <<>>
    /\ files_to_copy' = <<>>
    /\ futures' = <<>>
    /\ i' = 0
    /\ saveCount' = 0
    /\ outOfBand' = FALSE
    /\ cancelled' = FALSE
    /\ dest_files' = <<>>
    /\ progress' = <<>>
    /\ UNCHANGED <<srcFS, dstFS, roots, stateFile, reliable, cmp, walk,
                   dest_drive, diff, inc, pool>>

\* where a KeyboardInterrupt can be raised during the two scans: nowhere,
\* in the traversal (os.walk, FileInfo, the loop itself), or inside the try
\* block of should_exclude's hidden-attribute test; the last one is drawn on
\* reliable storage, it does not depend on the I/O failures of the copies
Interrupts ==
    {"none", "traversal"} \cup (IF reliable THEN {"hidden_test"} ELSE {})

\* should_exclude's hidden-attribute test runs under a bare except, which
\* catches the KeyboardInterrupt raised inside it; the except clauses of
\* scan_drive_fast re-raise the one raised anywhere else
propagates(interrupt) == interrupt = "traversal"

\* the two scans; the source scan feeds scanned_files and total_size; an
\* interrupt that propagates leaves sync_drives after n files were counted
Scan ==
    /\ pc = "scan"
    /\ \E interrupt \in Interrupts :
        /\ cancelled' = (interrupt # "none")
        /\ IF propagates(interrupt)
           THEN \E n \in 0..Len(scan_drive_fast(srcFS)) :
                /\ source_files' = <<>>
                /\ stats' = [stats EXCEPT
                       !.scanned_files = @ + n,
                       !.total_size =
                           @ + SumRange(scan_drive_fast(srcFS), 1, n)]
                /\ dest_files' = <<>>
                /\ pc' = "cancelled"
           ELSE /\ source_files' = scan_drive_fast(srcFS)
                /\ dest_files' = scan_dest(dest_drive, dstFS)
                /\ stats' = [stats EXCEPT
                       !.scanned_files = @ + Len(scan_drive_fast(srcFS)),
                       !.total_size = @ + SumSize(scan_drive_fast(srcFS))]
                /\ pc' = "plan"
    /\ UNCHANGED <<srcFS, dstFS, roots, stateFile, opts, state, files_to_copy,
                   futures, i, reliable, loaded, saveCount, outOfBand, cmp,
                   walk, dest_drive, progress, diff, inc, pool>>

\* executor.submit of the whole plan: the workers take the first MAX_WORKERS
\* tasks, the others wait in submission order
submit(n) ==
    [k \in 1..n |-> IF k <= MAX_WORKERS
                    THEN [NoFuture EXCEPT !.st = "running"]
                    ELSE NoFuture]

skipped_unless_newer(st, e) ==
    st.active /\ is_completed(st.completed_files, e.path)
              /\ e.mtime <= SRC_MTIME

skipped_without_resume(st, e) ==
    is_completed(IF st.active THEN st.completed_files ELSE load(stateFile),
                 e.path)

skipped_on_one_pair(st, e) ==
    st.active /\ is_completed(st.completed_files, e.path)
              /\ dest_drive = <<"E:">>

\* the planning loop's skip test
skipped(st, e) == st.active /\ is_completed(st.completed_files, e.path)

planned_all(st, scan, dst) ==
    LET Keep(e) == ~skipped(st, e)
    IN SelectSeq(scan, Keep)

planned_reversed(st, scan, dst) ==
    LET Keep(e) == /\ ~skipped(st, e)
                   /\ needs_update(e, FileInfo(dst, e.path))
        todo == SelectSeq(scan, Keep)
    IN [k \in 1..Len(todo) |-> todo[Len(todo) + 1 - k]]

\* the planning loop: the entries that become tasks, in scan order
planned(st, scan, dst) ==
    LET Keep(e) == /\ ~skipped(st, e)
                   /\ needs_update(e, FileInfo(dst, e.path))
    IN SelectSeq(scan, Keep)

returns_after_plan_if_empty(todo, dry_run) == todo = <<>>

\* sync_drives returns after planning: "if not files_to_copy" and
\* "if dry_run"
returns_after_plan(todo, dry_run) == todo = <<>> \/ dry_run

\* the planning loop, the "nothing to copy" return, the dry-run return, and
\* in parallel mode the submission of the plan to the executor
Plan ==
    /\ pc = "plan"
    /\ LET Skip(e) == skipped(state, e)
           IsNew(e) == ~FileInfo(dstFS, e.path).exists
           todo == planned(state, source_files, dstFS)
       IN /\ files_to_copy' =
                [k \in 1..Len(todo) |->
                    [relative_path |-> todo[k].path, size |-> todo[k].size,
                     verify_hash |-> opts.verify_hash]]
          /\ stats' = [stats EXCEPT
                !.skipped_files = @ + Len(SelectSeq(source_files, Skip)),
                !.new_files = @ + Len(SelectSeq(todo, IsNew)),
                !.updated_files = @ + Len(todo) - Len(SelectSeq(todo, IsNew))]
          /\ pc' = IF returns_after_plan(todo, opts.dry_run)
                   THEN "done" ELSE "copying"
          /\ futures' = IF returns_after_plan(todo, opts.dry_run) THEN <<>>
                        ELSE IF opts.parallel /\ MAX_WORKERS > 1
                        THEN submit(Len(todo))
                        ELSE [k \in 1..Len(todo) |-> NoFuture]
    /\ UNCHANGED <<srcFS, dstFS, roots, stateFile, opts, state, source_files,
                   i, reliable, loaded, saveCount, outOfBand,
                   cmp, cancelled, walk,
                   dest_files, dest_drive, progress, diff, inc, pool>>

\* ------------------------------------------------------------ copy phase
\* what the storage does to one call of copy_single_file: whether
\* dest_file.exists() raises, and for each attempt of the retry loop whether
\* the copy succeeds ("ok"), mkdir or copy2 raises ("error"), or the copy
\* returns with a destination of another size ("mismatch"); the attempts
\* after a successful one are never made and are written "ok"
IOChoices ==
    IF reliable
    THEN {[exists_raises |-> FALSE, attempts |-> [n \in 1..RETRIES |-> "ok"]]}
    ELSE {[exists_raises |-> TRUE, attempts |-> [n \in 1..RETRIES |-> "ok"]]}
         \cup {[exists_raises |-> FALSE, attempts |-> a] :
                 a \in {b \in [1..RETRIES -> {"ok", "error", "mismatch"}] :
                          \A n \in 1..RETRIES : \A m \in n..RETRIES :
                             b[n] = "ok" => b[m] = "ok"}}

last_attempt_early(attempt) == ~(attempt < RETRIES - 2)

\* the retry loop's test: attempt (0-based) is the last one
last_attempt(attempt) == ~(attempt < RETRIES - 1)

\* the destination file after one attempt: the copy of the source, a file
\* of another size that copy2 left without raising, or what was there when
\* mkdir or copy2 raised
after_attempt(src, d, outcome) ==
    CASE outcome = "ok" -> File(src.content, src.mtime)
      [] outcome = "mismatch" -> File("part", src.mtime)
      [] OTHER -> d

\* shutil.copy2 opens the source for reading and the destination for
\* writing: it raises when one of them cannot be opened, whatever the
\* storage would do otherwise
copy2(src, d, outcome) ==
    IF src.readable /\ d.readable THEN outcome ELSE "error"

size_verified_unchecked(src, d1) == TRUE

\* the check after copy2: the sizes of source and destination are equal
size_verified(src, d1) == src.size = d1.size

RECURSIVE retry_loop(_, _, _, _)
\* copy_file_with_retry from attempt n (0-based) on: the outcome, the
\* attempts made and the destination file left behind
retry_loop(src, d, attempts, n) ==
    IF n >= RETRIES THEN [success |-> FALSE, attempt |-> n, dst |-> d]
    ELSE LET o == copy2(src, d, attempts[n + 1])
             d1 == after_attempt(src, d, o)
         IN IF o # "error" /\ size_verified(src, d1)
            THEN [success |-> TRUE, attempt |-> n + 1, dst |-> d1]
            ELSE IF ~last_attempt(n)
            THEN retry_loop(src, d1, attempts, n + 1)
            ELSE [success |-> FALSE, attempt |-> n + 1, dst |-> d1]

copy_file_with_retry(src, d, attempts) == retry_loop(src, d, attempts, 0)

copy_single_file_always_copies(t, src, d, io) ==
    IF t.verify_hash /\ io.exists_raises
    THEN [success |-> FALSE, size |-> 0, how |-> "exception", attempt |-> 0,
          dst |-> d]
    ELSE LET r == copy_file_with_retry(src, d, io.attempts)
         IN [success |-> r.success, size |-> IF r.success THEN t.size ELSE 0,
             how |-> "copy", attempt |-> r.attempt, dst |-> r.dst]

\* copy_single_file: the result tuple, with how it came about, the attempts
\* made and the destination file afterwards
copy_single_file(t, src, d, io) ==
    IF t.verify_hash /\ io.exists_raises
    THEN [success |-> FALSE, size |-> 0, how |-> "exception", attempt |-> 0,
          dst |-> d]
    ELSE IF t.verify_hash /\ d.exists
            /\ calculate_hash(src) = calculate_hash(d)
    THEN [success |-> TRUE, size |-> 0, how |-> "hash", attempt |-> 0,
          dst |-> d]
    ELSE LET r == copy_file_with_retry(src, d, io.attempts)
         IN [success |-> r.success, size |-> IF r.success THEN t.size ELSE 0,
             how |-> "copy", attempt |-> r.attempt, dst |-> r.dst]

Running == {k \in DOMAIN futures : futures[k].st = "running"}

\* the completed future: the result tuple of copy_single_file, how it came
\* about and, for a copy that gave up, the attempts it had made
Done(r) ==
    [st |-> "done", attempt |-> IF r.success THEN 0 ELSE r.attempt,
     success |-> r.success, size |-> r.size, how |-> r.how]

\* the worker that has finished a task takes the next waiting one
take_next(f) ==
    LET waiting == {k \in DOMAIN f : f[k].st = "pending"}
    IN IF waiting = {} THEN f
       ELSE LET k == CHOOSE m \in waiting : \A j \in waiting : m <= j
            IN [f EXCEPT ![k].st = "running"]

\* a worker runs copy_single_file on its task and the future completes
Run(k) ==
    /\ pc = "copying"
    /\ opts.parallel /\ MAX_WORKERS > 1
    /\ k \in DOMAIN futures
    /\ futures[k].st = "running"
    /\ \E io \in IOChoices :
        LET t == files_to_copy[k]
            p == t.relative_path
            r == copy_single_file(t, FileInfo(srcFS, p), FileInfo(dstFS, p),
                                  io)
        IN /\ dstFS' = [dstFS EXCEPT ![p] = r.dst]
           /\ futures' = take_next([futures EXCEPT ![k] = Done(r)])
    /\ UNCHANGED <<srcFS, roots, stateFile, pc, opts, stats, state,
                   source_files, files_to_copy, i, reliable, loaded,
                   saveCount, outOfBand, cmp, cancelled, walk,
                   dest_files, dest_drive, progress, diff, inc, pool>>

reports_at_end(i_, n) == i_ = n

\* the loops' test before print_progress, on the 1-based index of the result
reports(i_, n) == i_ % PROGRESS_EVERY = 0 \/ i_ = n

\* "if i % 10 == 0 or i == len(files_to_copy): print_progress(i, ...)"
report(shown, i_, n) ==
    IF reports(i_, n) THEN Append(shown, [current |-> i_, total |-> n])
    ELSE shown

count_result_twice(st, success, size) ==
    IF success
    THEN [st EXCEPT !.copied_files = @ + 2, !.copied_size = @ + size]
    ELSE [st EXCEPT !.failed_files = @ + 1]

count_result_lossy(st, success, size) ==
    IF success
    THEN [st EXCEPT !.copied_files = @ + 1, !.copied_size = @ + size]
    ELSE st

count_result_nosize(st, success, size) ==
    IF success
    THEN [st EXCEPT !.copied_files = @ + 1]
    ELSE [st EXCEPT !.failed_files = @ + 1]

count_result_both(st, success, size) ==
    IF success
    THEN [st EXCEPT !.copied_files = @ + 1, !.copied_size = @ + size]
    ELSE [st EXCEPT !.failed_files = @ + 1, !.copied_files = @ + 1]

\* the counters after one result: copied_files and copied_size on success,
\* failed_files otherwise
count_result(st, success, size) ==
    IF success
    THEN [st EXCEPT !.copied_files = @ + 1, !.copied_size = @ + size]
    ELSE [st EXCEPT !.failed_files = @ + 1]

loop_ends_after(i_, n) == i_ = n + 1

\* the copy loops end with the result of the last task of the plan: both
\* iterate over exactly the submitted tasks
loop_ends(i_, n) == i_ = n

record_result_always(st, relative_path, success) ==
    IF st.active
    THEN [st EXCEPT !.completed_files = mark_completed(@, relative_path)]
    ELSE st

\* the ledger after one result: mark_completed on success when resuming
record_result(st, relative_path, success) ==
    IF success /\ st.active
    THEN [st EXCEPT !.completed_files = mark_completed(@, relative_path)]
    ELSE st

\* body of the as_completed loop: count the result, mark the ledger, save
\* the ledger when copied_files is a multiple of SAVE_EVERY
ParallelComplete(k) ==
    /\ pc = "copying"
    /\ opts.parallel /\ MAX_WORKERS > 1
    /\ k \in DOMAIN futures
    /\ futures[k].st = "done"
    /\ LET r == futures[k]
           st1 == count_result(stats, r.success, r.size)
           led == record_result(state, files_to_copy[k].relative_path,
                                r.success)
           saving == state.active /\ st1.copied_files % SAVE_EVERY = 0
       IN /\ stats' = st1
          /\ state' = led
          /\ i' = i + 1
          /\ progress' = report(progress, i + 1, Len(files_to_copy))
          /\ futures' = [futures EXCEPT ![k].st = "consumed"]
          /\ \E interrupted \in IF saving THEN BOOLEAN ELSE {FALSE} :
                /\ stateFile' = IF saving
                                THEN save(led.completed_files, interrupted)
                                ELSE stateFile
                /\ saveCount' = IF saving THEN saveCount + 1 ELSE saveCount
                /\ pc' = IF interrupted THEN "killed"
                         ELSE IF loop_ends(i + 1, Len(files_to_copy))
                         THEN "copied"
                         ELSE "copying"
    /\ UNCHANGED <<srcFS, dstFS, roots, opts, source_files, files_to_copy,
                   reliable, loaded, outOfBand, cmp, cancelled, walk,
                   dest_files, dest_drive, diff, inc, pool>>

\* one iteration of the sequential loop: copy_single_file on task i + 1,
\* count the result and mark the ledger
SequentialStep ==
    /\ pc = "copying"
    /\ ~(opts.parallel /\ MAX_WORKERS > 1)
    /\ i + 1 \in DOMAIN futures
    /\ \E io \in IOChoices :
        LET t == files_to_copy[i + 1]
            p == t.relative_path
            r == copy_single_file(t, FileInfo(srcFS, p), FileInfo(dstFS, p),
                                  io)
        IN /\ dstFS' = [dstFS EXCEPT ![p] = r.dst]
           /\ stats' = count_result(stats, r.success, r.size)
           /\ state' = record_result(state, p, r.success)
           /\ futures' = [futures EXCEPT
                            ![i + 1] = [Done(r) EXCEPT !.st = "consumed"]]
    /\ i' = i + 1
    /\ progress' = report(progress, i + 1, Len(files_to_copy))
    /\ pc' = IF loop_ends(i + 1, Len(files_to_copy)) THEN "copied"
             ELSE "copying"
    /\ UNCHANGED <<srcFS, roots, stateFile, opts, source_files,
                   files_to_copy, reliable, loaded, saveCount, outOfBand,
                   cmp, cancelled, walk, dest_files, dest_drive, diff, inc, pool>>

\* after the loop: the final save when resuming, the summary, the return
Finish ==
    /\ pc = "copied"
    /\ \E interrupted \in IF state.active THEN BOOLEAN ELSE {FALSE} :
        /\ stateFile' = IF state.active
                        THEN save(state.completed_files, interrupted)
                        ELSE stateFile
        /\ pc' = IF interrupted THEN "killed" ELSE "done"
    /\ saveCount' = IF state.active THEN saveCount + 1 ELSE saveCount
    /\ UNCHANGED <<srcFS, dstFS, roots, opts, stats, state, source_files,
                   files_to_copy, futures, i, reliable, loaded, outOfBand, cmp, cancelled, walk,
                   dest_files, dest_drive, progress, diff, inc, pool>>

\* ------------------------------------------------------------ environment
\* the first destination file is deleted between two runs, outside the
\* program
DeleteDest(p) ==
    /\ pc \in {"done", "killed"}
    /\ p = 1
    /\ ~outOfBand
    /\ p \in DOMAIN dstFS
    /\ dstFS[p].exists
    /\ dstFS' = [dstFS EXCEPT ![p] = Absent]
    /\ outOfBand' = TRUE
    /\ UNCHANGED <<srcFS, roots, stateFile, pc, opts, stats, state,
                   source_files, files_to_copy, futures, i, reliable,
                   loaded, saveCount, cmp, cancelled, walk,
                   dest_files, dest_drive, progress, diff, inc, pool>>

clear_memory_only(st, file) ==
    [state |-> [active |-> TRUE, completed_files |-> {}], file |-> file]

\* SyncState.clear: the set is emptied and the state file, if there is one,
\* is unlinked
clear(st, file) ==
    [state |-> [active |-> TRUE, completed_files |-> {}],
     file |-> IF file.kind # "missing" THEN Missing ELSE file]

\* the caller's "clear resume state" command, between two runs:
\* SyncState().clear() on a freshly constructed ledger
Clear ==
    /\ pc \in Returned_pcs
    /\ LET st == [active |-> TRUE, completed_files |-> load(stateFile)]
       IN /\ loaded' = st.completed_files
          /\ state' = clear(st, stateFile).state
          /\ stateFile' = clear(st, stateFile).file
    /\ pc' = "cleared"
    /\ opts' = NoOpts
    /\ stats' = ZeroStats
    /\ source_files' = <<>>
    /\ files_to_copy' = <<>>
    /\ futures' = <<>>
    /\ i' = 0
    /\ saveCount' = 0
    /\ outOfBand' = FALSE
    /\ cancelled' = FALSE
    /\ dest_files' = <<>>
    /\ progress' = <<>>
    /\ UNCHANGED <<srcFS, dstFS, roots, reliable, cmp, walk,
                   dest_drive, diff, inc, pool>>

Next ==
    \/ Invoke
    \/ Clear
    \/ Scan
    \/ Plan
    \/ \E k \in DOMAIN futures : Run(k)
    \/ \E k \in DOMAIN futures : ParallelComplete(k)
    \/ SequentialStep
    \/ Finish
    \/ \E p \in DOMAIN dstFS : DeleteDest(p)

Spec == Init /\ [][Next]_vars

\* the same program on the tree of InitMid
InitProgress ==
    /\ InitRun
    /\ cmp = NoCmp
    /\ walk = NoWalk
    /\ diff = NoDiff
    /\ inc = NoInc
    /\ pool = NoPool
    /\ InitMid

SpecProgress == InitProgress /\ [][Next]_vars

\* the trees with a file that cannot be opened: the tasks of such files
\* fail every attempt, the others are copied
InitLive ==
    /\ InitRun
    /\ cmp = NoCmp
    /\ walk = NoWalk
    /\ diff = NoDiff
    /\ inc = NoInc
    /\ pool = NoPool
    /\ InitUnreadable

\* a step of the copy phase: a worker finishes its task, the main thread
\* consumes a result or runs the next task, or ends the phase
CopyPhase ==
    \/ \E k \in DOMAIN futures : Run(k)
    \/ \E k \in DOMAIN futures : ParallelComplete(k)
    \/ SequentialStep
    \/ Finish

\* the threads of a running sync are scheduled, and a call of copy2, of
\* calculate_hash or of save that has begun returns or raises: the copy
\* phase does not stand still while one of its steps can be taken
SpecLive == InitLive /\ [][Next]_vars /\ WF_vars(CopyPhase)

\* --------------------------------------------- resumed runs over time
\* the source files after they were edited, and the source tree of another
\* source/destination pair: the same relative paths, other files
Edited(f) == File(OtherContent(f.content), f.mtime + MTIME_TOLERANCE + 1)

Grown(f) == File("CC", f.mtime)

OtherSource(p) == File(OtherContent(SrcOf(p).content), SRC_MTIME)

OTHER_DRIVE == <<"F:">>

\* a small source tree against an empty destination on reliable storage,
\* with no state file in the working directory
InitFirstRun ==
    /\ dest_drive = <<"E:">>
    /\ roots = [src |-> TRUE, dst |-> TRUE]
    /\ srcFS = [p \in 1..NPaths |-> SrcOf(p)]
    /\ dstFS = [p \in 1..NPaths |-> Absent]
    /\ reliable = TRUE
    /\ stateFile = Missing

InitResume ==
    /\ InitRun
    /\ cmp = NoCmp
    /\ walk = NoWalk
    /\ diff = NoDiff
    /\ inc = NoInc
    /\ pool = NoPool
    /\ InitFirstRun

\* between two runs the first source file is edited: another content and a
\* later modification time, or another size
ModifySource ==
    /\ pc \in Returned_pcs
    /\ srcFS[1] = SrcOf(1)
    /\ \E f \in {Edited(srcFS[1]), Grown(srcFS[1])} :
          srcFS' = [srcFS EXCEPT ![1] = f]
    /\ UNCHANGED <<dstFS, roots, stateFile, pc, opts, stats, state,
                   source_files, files_to_copy, futures, i, reliable,
                   loaded, saveCount, outOfBand, cmp, cancelled, walk,
                   dest_files, dest_drive, progress, diff, inc, pool>>

\* the caller turns to another source/destination pair for the next call of
\* sync_drives, from the same working directory: an empty destination
OtherPair ==
    /\ pc \in Returned_pcs
    /\ dest_drive # OTHER_DRIVE
    /\ dest_drive' = OTHER_DRIVE
    /\ srcFS' = [p \in 1..NPaths |-> OtherSource(p)]
    /\ dstFS' = [p \in 1..NPaths |-> Absent]
    /\ UNCHANGED <<roots, stateFile, pc, opts, stats, state,
                   source_files, files_to_copy, futures, i, reliable,
                   loaded, saveCount, outOfBand, cmp, cancelled, walk,
                   dest_files, progress, diff, inc, pool>>

NextResume == Next \/ ModifySource \/ OtherPair

SpecResume == InitResume /\ [][NextResume]_vars

\* ------------------------------------------- needs_update on its own
\* the records needs_update is evaluated on
Records ==
    {Absent} \cup
    {[exists |-> TRUE, size |-> sz, mtime |-> t, content |-> "A",
      readable |-> TRUE] :
        sz \in 0..MaxSize, t \in 0..MaxTime}

InitCompare ==
    /\ InitRun
    /\ roots = [src |-> TRUE, dst |-> TRUE]
    /\ srcFS = <<>>
    /\ dstFS = <<>>
    /\ reliable = TRUE
    /\ stateFile = Missing
    /\ walk = NoWalk
    /\ dest_drive = <<"E:">>
    /\ diff = NoDiff
    /\ inc = NoInc
    /\ pool = NoPool
    /\ cmp \in [s : Records, d : Records, done : {FALSE}, res : {FALSE}]

\* source_info.needs_update(dest_info) on one pair of records
Compare ==
    /\ ~cmp.done
    /\ cmp' = [cmp EXCEPT !.done = TRUE, !.res = needs_update(cmp.s, cmp.d)]
    /\ UNCHANGED <<srcFS, dstFS, roots, stateFile, pc, opts, stats, state,
                   source_files, files_to_copy, futures, i, reliable,
                   loaded, saveCount, outOfBand, cancelled, walk,
                   dest_files, dest_drive, progress, diff, inc, pool>>

NextCompare == Compare

SpecCompare == InitCompare /\ [][NextCompare]_vars

\* ------------------------------------- scan_drive_fast on a named tree
file_info_exists_always(f, denied) == TRUE

\* FileInfo(file_path).exists: path.stat() did not raise OSError
file_info_exists(f, denied) == f \notin denied

RECURSIVE os_walk(_, _, _)
\* the directories os.walk yields from directory d on, top down, when the
\* subdirectories that should_exclude rejects are removed from dirs
os_walk(drive_path, tree, d) ==
    LET below == {f \in tree : /\ Len(f.dirs) > Len(d)
                                /\ SubSeq(f.dirs, 1, Len(d)) = d}
        dirs == {c \in {f.dirs[Len(d) + 1] : f \in below} :
                    ~should_exclude(drive_path \o d \o <<c>>)}
    IN {d} \cup UNION {os_walk(drive_path, tree, Append(d, c)) : c \in dirs}

\* scan_drive_fast on a tree of named files: the directories visited and
\* the keys of files_dict
scan_named(drive_path, tree, denied) ==
    LET visited == os_walk(drive_path, tree, <<>>)
    IN [visited |-> visited,
        files_dict |->
            {f \in tree : /\ f.dirs \in visited
                          /\ ~should_exclude(drive_path \o f.dirs
                                              \o <<f.name>>)
                          /\ file_info_exists(f, denied)}]

\* the sizes of the files of the trees
st_size(name) ==
    CASE name = "a.txt" -> 1
      [] name = "b.tmp" -> 2
      [] name = "c.TMP" -> 2
      [] OTHER -> 0

RECURSIVE total_size(_)
total_size(files) ==
    IF files = {} THEN 0
    ELSE LET f == CHOOSE f \in files : TRUE
         IN st_size(f.name) + total_size(files \ {f})

scan_drive_raises(exists, drive_path, tree, denied, st) ==
    IF ~exists
    THEN [files_dict |-> {}, visited |-> {}, stats |-> st, raised |-> TRUE]
    ELSE LET r == scan_named(drive_path, tree, denied)
         IN [files_dict |-> r.files_dict, visited |-> r.visited,
             stats |-> [scanned_files |->
                            st.scanned_files + Cardinality(r.files_dict),
                        total_size |->
                            st.total_size + total_size(r.files_dict)],
             raised |-> FALSE]

\* scan_drive_fast(drive_path, stats): a root that does not exist is
\* logged and gives the empty files_dict; a root that exists is walked, and
\* each file recorded is counted in scanned_files and total_size
scan_drive(exists, drive_path, tree, denied, st) ==
    IF ~exists
    THEN [files_dict |-> {}, visited |-> {}, stats |-> st, raised |-> FALSE]
    ELSE LET r == scan_named(drive_path, tree, denied)
         IN [files_dict |-> r.files_dict, visited |-> r.visited,
             stats |-> [scanned_files |->
                            st.scanned_files + Cardinality(r.files_dict),
                        total_size |->
                            st.total_size + total_size(r.files_dict)],
             raised |-> FALSE]

\* the counters of the stats object handed to the scan: fresh, or already
\* counting another scan
ScanStats ==
    {[scanned_files |-> 0, total_size |-> 0],
     [scanned_files |-> 3, total_size |-> 7]}

\* the directories of a tree, as sequences of names below the root
DirPaths == UNION {[1..n -> DirNames] : n \in 0..MaxDepth}

\* the trees scanned: one or two files, each in a directory of DirPaths;
\* besides them a root without files, and a root that does not exist
Trees ==
    LET Files == [dirs : DirPaths, name : FileNames]
    IN {{f, g} : f \in Files, g \in Files}

\* the roots scanned: a drive, and a directory below a denylisted one
DrivePaths == DestDrives

\* the files of a tree whose stat raises OSError when it does for any:
\* the files named a.txt in the root directory
Denied(tree) == {f \in tree : f.name = "a.txt" /\ f.dirs = <<>>}

InitScan ==
    /\ InitRun
    /\ roots = [src |-> TRUE, dst |-> TRUE]
    /\ srcFS = <<>>
    /\ dstFS = <<>>
    /\ reliable = TRUE
    /\ stateFile = Missing
    /\ cmp = NoCmp
    /\ dest_drive = <<"E:">>
    /\ diff = NoDiff
    /\ inc = NoInc
    /\ pool = NoPool
    /\ \E d \in DrivePaths, t \in Trees \cup {{}}, st \in ScanStats :
          \E e \in IF t = {} THEN BOOLEAN ELSE {TRUE},
             n \in {{}, Denied(t)} :
             walk = [NoWalk EXCEPT !.drive_path = d, !.tree = t,
                                   !.denied = n,
                                   !.exists = e, !.stats0 = st,
                                   !.stats = st]

\* scan_drive_fast(drive_path, stats) on one tree
ScanTree ==
    /\ ~walk.done
    /\ LET r == scan_drive(walk.exists, walk.drive_path, walk.tree,
                           walk.denied, walk.stats)
       IN walk' = [walk EXCEPT !.done = TRUE,
                               !.visited = r.visited,
                               !.files_dict = r.files_dict,
                               !.stats = r.stats,
                               !.raised = r.raised]
    /\ UNCHANGED <<srcFS, dstFS, roots, stateFile, pc, opts, stats, state,
                   source_files, files_to_copy, futures, i, reliable,
                   loaded, saveCount, outOfBand, cmp, cancelled,
                   dest_files, dest_drive, progress, diff, inc, pool>>

NextScan == ScanTree

SpecScan == InitScan /\ [][NextScan]_vars

\* ------------------------------------------------------- compare_drives
compare_drives_by_size(files1, files2) ==
    LET keys1 == DOMAIN files1
        keys2 == DOMAIN files2
        in_both == keys1 \cap keys2
    IN [only_in_1 |-> keys1 \ keys2,
        only_in_2 |-> keys2 \ keys1,
        in_both |-> in_both,
        different |-> {rel_path \in in_both :
                          files1[rel_path].size # files2[rel_path].size}]

\* what compare_drives derives from the two scan results before it prints
compare_drives(files1, files2) ==
    LET keys1 == DOMAIN files1
        keys2 == DOMAIN files2
        in_both == keys1 \cap keys2
    IN [only_in_1 |-> keys1 \ keys2,
        only_in_2 |-> keys2 \ keys1,
        in_both |-> in_both,
        different |-> {rel_path \in in_both :
                          needs_update(files1[rel_path], files2[rel_path])}]

\* the scan results of two trees over the same relative paths: a path is
\* missing from a tree or holds a file; in the second tree the file is the
\* first tree's, the same content at the edge of the tolerance or older
\* than it, or a file of another size
ScanResults1 ==
    UNION {[keys -> {File("A", SRC_MTIME)}] : keys \in SUBSET (1..NKeys)}

ScanResults2 ==
    UNION {[keys -> {File("A", SRC_MTIME),
                     File("A", SRC_MTIME - MTIME_TOLERANCE),
                     File("A", SRC_MTIME - MTIME_TOLERANCE - 1),
                     File("CC", SRC_MTIME)}] : keys \in SUBSET (1..NKeys)}

InitDrives ==
    /\ InitRun
    /\ roots = [src |-> TRUE, dst |-> TRUE]
    /\ srcFS = <<>>
    /\ dstFS = <<>>
    /\ reliable = TRUE
    /\ stateFile = Missing
    /\ cmp = NoCmp
    /\ walk = NoWalk
    /\ dest_drive = <<"E:">>
    /\ inc = NoInc
    /\ pool = NoPool
    /\ \E f1 \in ScanResults1, f2 \in ScanResults2 :
          diff = [NoDiff EXCEPT !.files1 = f1, !.files2 = f2]

\* compare_drives on the two scan results
CompareDrives ==
    /\ ~diff.done
    /\ LET r == compare_drives(diff.files1, diff.files2)
       IN diff' = [diff EXCEPT !.done = TRUE,
                               !.only_in_1 = r.only_in_1,
                               !.only_in_2 = r.only_in_2,
                               !.in_both = r.in_both,
                               !.different = r.different]
    /\ UNCHANGED <<srcFS, dstFS, roots, stateFile, pc, opts, stats, state,
                   source_files, files_to_copy, futures, i, reliable,
                   loaded, saveCount, outOfBand, cmp, cancelled, walk,
                   dest_files, dest_drive, progress, inc, pool>>

NextDrives == CompareDrives

SpecDrives == InitDrives /\ [][NextDrives]_vars

\* ----------------------------------------------- FileSyncStats.increment
\* the counters the threads increment, and the values they start from
Attrs == {"scanned_files", "total_size"}

InitialValues ==
    {[a \in Attrs |-> 0],
     [a \in Attrs |-> IF a = "scanned_files" THEN 3 ELSE 7]}

\* one call increment(attr, value) per thread, not yet started
Calls == [pc : {"call"}, attr : Attrs, value : {1, 2}, read : {0}]

InitIncrement ==
    /\ InitRun
    /\ roots = [src |-> TRUE, dst |-> TRUE]
    /\ srcFS = <<>>
    /\ dstFS = <<>>
    /\ reliable = TRUE
    /\ stateFile = Missing
    /\ cmp = NoCmp
    /\ walk = NoWalk
    /\ dest_drive = <<"E:">>
    /\ diff = NoDiff
    /\ pool = NoPool
    /\ \E v \in InitialValues, c \in [1..NThreads -> Calls] :
          inc = [lock |-> 0, thread |-> c, value |-> v, initial |-> v]

acquirable_unlocked(lock) == TRUE

\* threading.Lock: acquire returns when no thread holds the lock
acquirable(lock) == lock = 0

IncFrame ==
    UNCHANGED <<srcFS, dstFS, roots, stateFile, pc, opts, stats, state,
                   source_files, files_to_copy, futures, i, reliable,
                   loaded, saveCount, outOfBand, cmp, cancelled, walk,
                   dest_files, dest_drive, progress, diff, pool>>

\* "with self.lock:" on entry
Acquire(t) ==
    /\ inc.thread[t].pc = "call"
    /\ acquirable(inc.lock)
    /\ inc' = [inc EXCEPT !.lock = t, !.thread[t].pc = "getattr"]
    /\ IncFrame

\* getattr(self, attr)
GetAttr(t) ==
    /\ inc.thread[t].pc = "getattr"
    /\ inc' = [inc EXCEPT !.thread[t].read = inc.value[inc.thread[t].attr],
                          !.thread[t].pc = "setattr"]
    /\ IncFrame

\* setattr(self, attr, <the value read> + value)
SetAttr(t) ==
    /\ inc.thread[t].pc = "setattr"
    /\ inc' = [inc EXCEPT
                  !.value[inc.thread[t].attr] =
                      inc.thread[t].read + inc.thread[t].value,
                  !.thread[t].pc = "release"]
    /\ IncFrame

\* "with self.lock:" on exit, and the return
Release(t) ==
    /\ inc.thread[t].pc = "release"
    /\ inc' = [inc EXCEPT !.lock = 0, !.thread[t].pc = "returned"]
    /\ IncFrame

NextIncrement ==
    \E t \in 1..NThreads :
        Acquire(t) \/ GetAttr(t) \/ SetAttr(t) \/ Release(t)

SpecIncrement == InitIncrement /\ [][NextIncrement]_vars

RECURSIVE Passed(_, _)
\* the sum of the amounts the first n threads pass for counter a
Passed(a, n) ==
    IF n = 0 THEN 0
    ELSE Passed(a, n - 1)
         + (IF inc.thread[n].attr = a THEN inc.thread[n].value ELSE 0)

\* ------------------------------------- the worker pool and the ledger
marker_worker(k) == k

\* the thread that calls state.mark_completed for the result of task k: the
\* thread that runs the as_completed loop (thread 0); worker k runs
\* copy_single_file, which has no reference to the ledger
marker(k) == 0

\* a plan of NTasks tasks has been submitted with resume on; every task is
\* running in a worker
InitPool ==
    /\ InitRun
    /\ roots = [src |-> TRUE, dst |-> TRUE]
    /\ srcFS = <<>>
    /\ dstFS = <<>>
    /\ reliable = FALSE
    /\ stateFile = Missing
    /\ cmp = NoCmp
    /\ walk = NoWalk
    /\ dest_drive = <<"E:">>
    /\ diff = NoDiff
    /\ inc = NoInc
    /\ pool = [NoPool EXCEPT
                  !.task = [k \in 1..NTasks |-> "running"],
                  !.success = [k \in 1..NTasks |-> FALSE],
                  !.marked = [k \in 1..NTasks |-> "no"]]

PoolFrame ==
    UNCHANGED <<srcFS, dstFS, roots, stateFile, pc, opts, stats, state,
                source_files, files_to_copy, futures, i, reliable,
                loaded, saveCount, outOfBand, cmp, cancelled, walk,
                dest_files, dest_drive, progress, diff, inc>>

\* copy_single_file returns in worker k and the future completes
WorkerReturns(k) ==
    /\ pool.task[k] = "running"
    /\ \E success \in BOOLEAN :
          pool' = [pool EXCEPT !.task[k] = "done", !.success[k] = success]
    /\ PoolFrame

\* as_completed yields the future of task k; the loop reads its result and
\* counts it
Take(k) ==
    /\ pool.main = "wait"
    /\ pool.task[k] = "done"
    /\ pool' = [pool EXCEPT
                  !.task[k] = "consumed",
                  !.cur = k,
                  !.copied_files = IF pool.success[k] THEN @ + 1 ELSE @,
                  !.main = IF pool.success[k] /\ marker(k) = 0
                           THEN "mark" ELSE "save_test"]
    /\ PoolFrame

\* mark_completed(relative_path) is entered by the thread that calls it
EnterMark(k) ==
    /\ pool.marked[k] = "no"
    /\ pool.success[k]
    /\ pool.task[k] # "running"
    /\ marker(k) = 0 => (pool.main = "mark" /\ pool.cur = k)
    /\ pool' = [pool EXCEPT
                  !.marked[k] = "in",
                  !.inside = @ \cup {marker(k)},
                  !.main = IF marker(k) = 0 THEN "in_mark" ELSE @]
    /\ PoolFrame

\* completed_files.add(relative_path) is done and mark_completed returns
ExitMark(k) ==
    /\ pool.marked[k] = "in"
    /\ pool' = [pool EXCEPT
                  !.marked[k] = "yes",
                  !.completed_files = @ \cup {k},
                  !.inside = @ \ {marker(k)},
                  !.main = IF marker(k) = 0 THEN "save_test" ELSE @]
    /\ PoolFrame

\* "if state and stats.copied_files % 100 == 0: state.save()": save is
\* entered and starts to serialize the set
EnterSave ==
    /\ pool.main = "save_test"
    /\ pool.copied_files % SAVE_EVERY = 0
    /\ pool' = [pool EXCEPT !.main = "in_save", !.inside = @ \cup {0}]
    /\ PoolFrame

SkipSave ==
    /\ pool.main = "save_test"
    /\ pool.copied_files % SAVE_EVERY # 0
    /\ pool' = [pool EXCEPT !.main = "wait"]
    /\ PoolFrame

ExitSave ==
    /\ pool.main = "in_save"
    /\ pool' = [pool EXCEPT !.main = "wait", !.inside = @ \ {0},
                            !.saves = @ + 1]
    /\ PoolFrame

\* the loop has consumed every future, the executor is shut down, and the
\* final save is entered
EnterFinalSave ==
    /\ pool.main = "wait"
    /\ \A k \in DOMAIN pool.task : pool.task[k] = "consumed"
    /\ pool' = [pool EXCEPT !.main = "in_final_save",
                            !.inside = @ \cup {0}]
    /\ PoolFrame

ExitFinalSave ==
    /\ pool.main = "in_final_save"
    /\ pool' = [pool EXCEPT !.main = "end", !.inside = @ \ {0},
                            !.saves = @ + 1]
    /\ PoolFrame

NextPool ==
    \/ \E k \in DOMAIN pool.task :
          WorkerReturns(k) \/ Take(k) \/ EnterMark(k) \/ ExitMark(k)
    \/ EnterSave
    \/ SkipSave
    \/ ExitSave
    \/ EnterFinalSave
    \/ ExitFinalSave

SpecPool == InitPool /\ [][NextPool]_vars

\* ------------------------------------------------------------- properties
\* the paths this run has added to the ledger
Added == state.completed_files \ loaded

Returned(k) == futures[k].st \in {"done", "consumed"}

Consumed == {k \in DOMAIN futures : futures[k].st = "consumed"}

PathOf(k) == files_to_copy[k].relative_path

\* the planning pass of the current run is over
Planned == pc \in {"copying", "copied", "done", "killed"}

\* the copy loop of a real run has ended normally
CopyEnded == pc = "copied" \/ (pc = "done" /\ ~opts.dry_run)

RECURSIVE SumResults(_, _)
SumResults(f, n) == IF n = 0 THEN 0 ELSE f[n].size + SumResults(f, n - 1)

\* C1: every path the run has added to the resume ledger is the path of a
\* task whose result has been returned and consumed as a success, reached
\* by a copy whose size check matched or by the hash short-circuit; a task
\* that failed or is still pending or running has no path in the ledger
C1_LedgerOnlySuccess ==
    \A p \in Added :
        \E k \in DOMAIN futures :
            /\ PathOf(k) = p
            /\ futures[k].st = "consumed"
            /\ futures[k].success
            /\ futures[k].how \in {"copy", "hash"}
            /\ pc \in {"copying", "copied"} =>
                 IF futures[k].how = "copy"
                 THEN FileInfo(dstFS, p).size = FileInfo(srcFS, p).size
                 ELSE calculate_hash(FileInfo(dstFS, p)) =
                      calculate_hash(FileInfo(srcFS, p))

C1_Witness ==
    /\ pc = "copying"
    /\ Added # {}
    /\ \E k \in DOMAIN futures : futures[k].st = "running"

\* C2: a copy whose every attempt failed was attempted exactly 3 times; once
\* its result is consumed it is counted once in failed_files, not in
\* copied_files, and its path is not in the ledger
C2_RetryBound ==
    /\ \A k \in DOMAIN futures :
        (Returned(k) /\ futures[k].how = "copy" /\ ~futures[k].success) =>
            /\ futures[k].attempt = 3
            /\ PathOf(k) \notin state.completed_files
    /\ stats.failed_files = Cardinality({k \in Consumed : ~futures[k].success})
    /\ stats.copied_files = Cardinality({k \in Consumed : futures[k].success})

C2_Witness ==
    /\ state.active
    /\ \E k \in Consumed :
        /\ futures[k].how = "copy"
        /\ ~futures[k].success
        /\ futures[k].attempt = 3
    /\ stats.failed_files = 1
    /\ stats.copied_files = 0

\* C3: when the copy loop has ended, in either mode, every task of the plan
\* has been processed and copied_files + failed_files is the plan's length,
\* whichever tasks failed
C3_BatchCompletes ==
    CopyEnded =>
        /\ Len(futures) = Len(files_to_copy)
        /\ \A k \in DOMAIN futures : futures[k].st = "consumed"
        /\ stats.copied_files + stats.failed_files = Len(files_to_copy)

C3_Witness ==
    /\ pc = "done"
    /\ Len(files_to_copy) >= 2
    /\ Len(futures) = Len(files_to_copy)
    /\ ~futures[1].success
    /\ futures[2].success

\* C4: at the end of the copy loop the counters and the ledger are a function
\* of the tasks' outcomes alone, the same in the concurrent and in the
\* sequential mode and for every completion order: copied_files and
\* failed_files count the successes and the failures, copied_size is the sum
\* of the sizes returned, the ledger is the loaded set plus the successes
C4_ModeIndependent ==
    CopyEnded =>
        /\ stats.copied_files =
             Cardinality({k \in DOMAIN futures : futures[k].success})
        /\ stats.failed_files =
             Cardinality({k \in DOMAIN futures : ~futures[k].success})
        /\ stats.copied_size = SumResults(futures, Len(futures))
        /\ state.completed_files =
             IF state.active
             THEN loaded \cup {PathOf(k) : k \in {j \in DOMAIN futures :
                                                    futures[j].success}}
             ELSE {}

C4_Witness ==
    /\ pc = "done"
    /\ opts.parallel
    /\ state.active
    /\ \E k \in DOMAIN futures : futures[k].success /\ futures[k].size = 0
    /\ \E k \in DOMAIN futures : futures[k].success /\ futures[k].size > 0

\* C5: in a resumed run every source entry the loaded ledger marks completed
\* is counted in skipped_files and is not in the plan, whatever the state of
\* its destination file
C5_LedgerTrumpsDestination ==
    (Planned /\ state.active) =>
        /\ \A k \in DOMAIN files_to_copy : PathOf(k) \notin loaded
        /\ stats.skipped_files =
             Cardinality({n \in DOMAIN source_files :
                            source_files[n].path \in loaded})

C5_Witness ==
    /\ Planned
    /\ state.active
    /\ \E n \in DOMAIN source_files :
        /\ source_files[n].path \in loaded
        /\ ~FileInfo(dstFS, source_files[n].path).exists
        /\ stats.skipped_files >= 1

\* C6: after a real run in which every task succeeded, with the source
\* unchanged and the destination changed by that run only, the planning pass
\* of a second run under the same resume and verify_hash (load of the state
\* file, scan of the source, planning loop) yields an empty plan
C6_Idempotent ==
    (pc = "done" /\ ~opts.dry_run /\ stats.failed_files = 0 /\ ~outOfBand) =>
        planned(IF opts.resume
                THEN [active |-> TRUE, completed_files |-> load(stateFile)]
                ELSE NoState,
                scan_drive_fast(srcFS), dstFS) = <<>>

\* C7: needs_update(s, d) is true exactly when d does not exist, or the sizes
\* differ, or the modification times differ by more than 2
C7_NeedsUpdateExact ==
    cmp.done =>
        (cmp.res <=> \/ ~cmp.d.exists
                     \/ cmp.s.size # cmp.d.size
                     \/ cmp.s.mtime - cmp.d.mtime > 2
                     \/ cmp.d.mtime - cmp.s.mtime > 2)

C7_Witness ==
    /\ cmp.done
    /\ ~cmp.res
    /\ cmp.d.exists
    /\ cmp.s.mtime - cmp.d.mtime = 2

\* C8: with resume enabled the ledger is saved after a task completion
\* exactly when that completion was a success that brought copied_files to a
\* positive multiple of 100, and once more after the last task
C8_SaveCadence ==
    /\ [][(state.active /\ i' = i + 1) =>
            ((saveCount' = saveCount + 1) <=>
                /\ stats'.copied_files = stats.copied_files + 1
                /\ stats'.copied_files > 0
                /\ stats'.copied_files % 100 = 0)]_vars
    /\ [][(state.active /\ pc = "copied" /\ pc' = "done") =>
            saveCount' = saveCount + 1]_vars

\* C9: during the copy phase with resume enabled at most 100 paths marked
\* completed in memory are missing from the state file
C9_BoundedLoss ==
    (state.active /\ pc \in {"copying", "copied"}) =>
        Cardinality(state.completed_files \ load(stateFile)) <= 100

\* C10: a save, interrupted or not, leaves a state file from which load
\* yields either the previously saved set or the set being saved
C10_SaveAtomic ==
    [][(saveCount' = saveCount + 1) =>
            \/ load(stateFile') = load(stateFile)
            \/ load(stateFile') = state'.completed_files]_vars

\* C11: when the source root or the destination root does not exist, a sync
\* that is invoked returns at the root checks: nothing is scanned, planned,
\* copied or saved, every counter of the returned stats is zero, and the
\* destination and the state file are as they were before the call
C11_MissingRootRefused ==
    [][(~roots.src \/ ~roots.dst) =>
        /\ pc' \in {"refused", "cleared"}
        /\ stats' = ZeroStats
        /\ source_files' = <<>>
        /\ files_to_copy' = <<>>
        /\ futures' = <<>>
        /\ saveCount' = 0
        /\ pc' = "refused" => (dstFS' = dstFS /\ stateFile' = stateFile)
    ]_vars

C11_Witness ==
    /\ pc = "refused"
    /\ roots.src
    /\ ~roots.dst
    /\ opts.resume
    /\ ~opts.dry_run
    /\ stateFile.kind = "valid"
    /\ \E p \in DOMAIN srcFS : srcFS[p].exists

\* C12: the planning pass puts in the plan exactly the source entries that
\* the ledger does not mark completed and for which needs_update against the
\* destination is true, each once; after it skipped_files is the number of
\* source entries marked completed, new_files the number of planned entries
\* with no destination file, updated_files the number of the other planned
\* entries, and new_files + updated_files the length of the plan
C12_PlanExact ==
    [][(pc = "plan" /\ pc' # "plan") =>
        LET marked == {n \in DOMAIN source_files :
                          source_files[n].path \in state.completed_files}
            wanted == {n \in DOMAIN source_files \ marked :
                          needs_update(source_files[n],
                              FileInfo(dstFS, source_files[n].path))}
            absent == {k \in DOMAIN files_to_copy' :
                          ~FileInfo(dstFS,
                                    files_to_copy'[k].relative_path).exists}
        IN /\ {files_to_copy'[k].relative_path : k \in DOMAIN files_to_copy'}
                = {source_files[n].path : n \in wanted}
           /\ Len(files_to_copy') = Cardinality(wanted)
           /\ stats'.skipped_files = Cardinality(marked)
           /\ stats'.new_files = Cardinality(absent)
           /\ stats'.updated_files = Len(files_to_copy') - Cardinality(absent)
           /\ stats'.new_files + stats'.updated_files = Len(files_to_copy')
    ]_vars

C12_Witness ==
    /\ pc = "copying"
    /\ i = 0
    /\ Len(source_files) >= 2
    /\ stats.skipped_files = 1
    /\ stats.new_files = 0
    /\ stats.updated_files = 1
    /\ Len(files_to_copy) = 1

\* C13: the tasks of the plan stand in the order in which their entries were
\* inserted into the source scan: each task's entry comes later in the scan
\* than the entry of the task before it, so the plan is the one listing of
\* its entries in scan order and a second planning pass over the same scan,
\* destination and ledger yields the same sequence
C13_PlanKeepsScanOrder ==
    [][(pc = "plan" /\ pc' # "plan") =>
        LET Pos(k) == CHOOSE n \in DOMAIN source_files :
                         source_files[n].path = files_to_copy'[k].relative_path
        IN /\ \A k \in DOMAIN files_to_copy' :
                \E n \in DOMAIN source_files :
                    source_files[n].path = files_to_copy'[k].relative_path
           /\ \A k \in DOMAIN files_to_copy' :
                k > 1 => Pos(k - 1) < Pos(k)
           /\ files_to_copy' =
                [k \in DOMAIN files_to_copy' |->
                    [relative_path |-> source_files[Pos(k)].path,
                     size |-> source_files[Pos(k)].size,
                     verify_hash |-> opts.verify_hash]]
    ]_vars

C13_Witness ==
    /\ pc = "copying"
    /\ i = 0
    /\ Len(files_to_copy) >= 2
    /\ Len(source_files) = Len(files_to_copy)
    /\ \A k \in DOMAIN files_to_copy :
            files_to_copy[k].relative_path = source_files[k].path

\* the step returns the result of task k
Returns(k) ==
    /\ futures[k].st \in {"pending", "running"}
    /\ futures'[k].st \in {"done", "consumed"}

\* the step consumes the result of task k in the copy loop
Consumes(k) ==
    /\ futures[k].st # "consumed"
    /\ futures'[k].st = "consumed"

\* C14: a task with verify_hash whose destination file is found to exist
\* with the same content as the source returns success with size 0 and
\* leaves the destination tree as it was; when its result is consumed
\* copied_files grows by 1, copied_size and failed_files stay, and with
\* resume on the path is marked completed in the ledger
C14_HashEqualSatisfied ==
    [][\A k \in DOMAIN futures \cap DOMAIN futures' :
        /\ (/\ Returns(k)
            /\ files_to_copy[k].verify_hash
            /\ FileInfo(dstFS, PathOf(k)).exists
            /\ FileInfo(dstFS, PathOf(k)).content =
                   FileInfo(srcFS, PathOf(k)).content
            /\ futures'[k].how # "exception")
           => /\ futures'[k].success
              /\ futures'[k].size = 0
              /\ futures'[k].how = "hash"
              /\ dstFS' = dstFS
        /\ (Consumes(k) /\ futures'[k].how = "hash")
           => /\ stats'.copied_files = stats.copied_files + 1
              /\ stats'.copied_size = stats.copied_size
              /\ stats'.failed_files = stats.failed_files
              /\ state.active => PathOf(k) \in state'.completed_files
    ]_vars

C14_Witness ==
    /\ pc \in {"copying", "copied"}
    /\ state.active
    /\ stats.copied_files = 1
    /\ stats.copied_size = 0
    /\ \E k \in Consumed :
        /\ futures[k].how = "hash"
        /\ PathOf(k) \in Added
        /\ dstFS[PathOf(k)].mtime # srcFS[PathOf(k)].mtime

\* the destination of path p exists with the size of the source, another
\* content, and a modification time beyond the tolerance
SameSizeOtherContent(p) ==
    /\ FileInfo(dstFS, p).exists
    /\ FileInfo(dstFS, p).size = FileInfo(srcFS, p).size
    /\ FileInfo(dstFS, p).content # FileInfo(srcFS, p).content
    /\ \/ FileInfo(srcFS, p).mtime - FileInfo(dstFS, p).mtime > 2
       \/ FileInfo(dstFS, p).mtime - FileInfo(srcFS, p).mtime > 2

\* C15: with verify_hash, a source entry that reaches the needs_update test
\* (the ledger does not mark it) and whose destination exists with the same
\* size, another content and a modification time beyond the tolerance is
\* planned; its task is not satisfied by the hash comparison but copied, and
\* when the copy succeeds the destination holds the source's content and
\* the source's size is added to copied_size
C15_HashDiffersCopied ==
    [][/\ (pc = "plan" /\ pc' # "plan" /\ opts.verify_hash) =>
            \A n \in DOMAIN source_files :
                (/\ source_files[n].path \notin state.completed_files
                 /\ SameSizeOtherContent(source_files[n].path))
                => \E k \in DOMAIN files_to_copy' :
                      /\ files_to_copy'[k].relative_path =
                             source_files[n].path
                      /\ files_to_copy'[k].verify_hash
       /\ \A k \in DOMAIN futures \cap DOMAIN futures' :
            /\ (/\ Returns(k)
                /\ files_to_copy[k].verify_hash
                /\ SameSizeOtherContent(PathOf(k))
                /\ futures'[k].how # "exception")
               => /\ futures'[k].how = "copy"
                  /\ futures'[k].success =>
                        /\ dstFS'[PathOf(k)].exists
                        /\ dstFS'[PathOf(k)].content =
                               srcFS[PathOf(k)].content
                        /\ futures'[k].size = srcFS[PathOf(k)].size
            /\ (Consumes(k) /\ futures'[k].how = "copy"
                            /\ futures'[k].success)
               => stats'.copied_size =
                     stats.copied_size + srcFS[PathOf(k)].size
    ]_vars

\* C16: consuming the result of one task changes the counters and the ledger
\* in one of two ways and in no other: on success copied_files grows by 1,
\* copied_size by the size of the result and, with resume on, the path joins
\* the ledger, failed_files stays; on failure failed_files grows by 1 and
\* copied_files, copied_size and the ledger stay; the other counters stay in
\* both, and a step of the copy phase that consumes no result changes
\* neither the counters nor the ledger
C16_ResultFrame ==
    [][/\ \A k \in DOMAIN futures \cap DOMAIN futures' :
            Consumes(k) =>
                /\ stats' = [stats EXCEPT
                        !.copied_files = @ + (IF futures'[k].success
                                              THEN 1 ELSE 0),
                        !.copied_size = @ + (IF futures'[k].success
                                             THEN futures'[k].size ELSE 0),
                        !.failed_files = @ + (IF futures'[k].success
                                              THEN 0 ELSE 1)]
                /\ state'.completed_files =
                        IF futures'[k].success /\ state.active
                        THEN state.completed_files \cup {PathOf(k)}
                        ELSE state.completed_files
       /\ (pc = "copying" /\ pc' = "copying" /\ i' = i) =>
            (stats' = stats /\ state' = state)
    ]_vars

C16_Witness ==
    /\ pc \in {"copying", "copied"}
    /\ state.active
    /\ stats.copied_files = 1
    /\ stats.copied_size > 0
    /\ stats.failed_files = 1
    /\ Cardinality(Added) = 1
    /\ \E k \in Consumed : ~futures[k].success /\ PathOf(k) \notin Added

\* the file names of FileNames whose extension, case ignored, is denylisted
DenylistedExtensionNames == {"b.tmp", "c.TMP"}

\* a directory path has a component with a denylisted name
UnderDenylisted(dirs) == \E n \in DOMAIN dirs : dirs[n] \in EXCLUDED_FOLDERS

\* C17: for every tree and root, no key of the scan result names a file
\* below a directory with a denylisted name or a file whose extension, case
\* ignored, is denylisted, and no directory the scan has visited is a
\* denylisted directory or lies below one
C17_ExcludedNeverScanned ==
    walk.done =>
        /\ \A key \in walk.files_dict :
            /\ ~UnderDenylisted(key.dirs)
            /\ key.name \notin DenylistedExtensionNames
        /\ \A d \in walk.visited : ~UnderDenylisted(d)

C17_Witness ==
    /\ walk.done
    /\ \E f \in walk.tree :
        /\ f.dirs = <<"docs", "Recovery">>
        /\ f.name = "a.txt"
        /\ f \notin walk.files_dict
        /\ <<"docs">> \in walk.visited
    /\ \E g \in walk.files_dict : g.dirs = <<"recovery">>

\* C18: after a user cancellation raised at any point of the scans of a
\* run, that run has left sync_drives with the interrupt: it has no scan
\* result, has planned nothing, copied nothing and saved no ledger
C18_CancelAborts ==
    cancelled =>
        /\ pc = "cancelled"
        /\ source_files = <<>>
        /\ files_to_copy = <<>>
        /\ futures = <<>>
        /\ saveCount = 0

\* C19: after clear() the ledger answers is_completed with false for every
\* path, there is no state file, and the ledger a following run constructs
\* starts with the empty set; this holds as well when there was no state
\* file to delete
C19_ClearEmpties ==
    [][/\ pc' = "cleared" =>
            /\ \A p \in DOMAIN srcFS \cup loaded' :
                    ~is_completed(state'.completed_files, p)
            /\ state'.completed_files = {}
            /\ stateFile'.kind = "missing"
       /\ (pc = "cleared" /\ pc' \in {"scan", "refused"} /\ opts'.resume) =>
            (state'.active /\ state'.completed_files = {})
    ]_vars

C19_Witness ==
    /\ pc = "cleared"
    /\ loaded # {}
    /\ state.completed_files = {}
    /\ stateFile = Missing
    /\ \E p \in DOMAIN dstFS : dstFS[p].exists

\* C20: a run that constructs its ledger while the state file is missing,
\* is not parsable or does not have the structure save writes starts with
\* the empty set, and its planning pass skips nothing
C20_LoadTolerant ==
    [][/\ (/\ pc \in Returned_pcs
           /\ pc' \in {"scan", "refused"}
           /\ opts'.resume
           /\ stateFile.kind # "valid")
          => (state'.active /\ state'.completed_files = {})
       /\ (pc = "plan" /\ pc' # "plan" /\ stateFile.kind # "valid")
          => stats'.skipped_files = 0
    ]_vars

SourcePaths == {p \in DOMAIN srcFS : srcFS[p].exists}

\* C22: a real run with resume on that starts from a destination without
\* files and a ledger without paths plans one new task per source file; when
\* it ends without a failed task every source path is in the destination
\* with the source's size, copied_files is the number of source files,
\* failed_files is 0 and the ledger is the set of the source paths
C22_FreshMirror ==
    [][/\ (/\ pc = "plan" /\ pc' # "plan"
           /\ state.active /\ state.completed_files = {}
           /\ \A p \in DOMAIN dstFS : ~dstFS[p].exists)
          => /\ Len(files_to_copy') = Cardinality(SourcePaths)
             /\ {files_to_copy'[k].relative_path :
                    k \in DOMAIN files_to_copy'} = SourcePaths
             /\ stats'.new_files = Cardinality(SourcePaths)
             /\ stats'.updated_files = 0
       /\ (/\ pc = "copied" /\ pc' = "done"
           /\ state.active /\ loaded = {}
           /\ stats.new_files = Cardinality(SourcePaths)
           /\ stats.failed_files = 0)
          => /\ \A p \in SourcePaths :
                    /\ dstFS'[p].exists
                    /\ dstFS'[p].size = srcFS[p].size
             /\ stats'.copied_files = Cardinality(SourcePaths)
             /\ stats'.failed_files = 0
             /\ state'.completed_files = SourcePaths
    ]_vars

C22_Witness ==
    /\ pc = "done"
    /\ ~opts.dry_run
    /\ state.active
    /\ loaded = {}
    /\ stats.new_files = Cardinality(SourcePaths)
    /\ stats.copied_files = Cardinality(SourcePaths)
    /\ stats.failed_files = 0
    /\ state.completed_files = SourcePaths
    /\ \A p \in SourcePaths : dstFS[p] = srcFS[p]
    /\ Cardinality(SourcePaths) >= 2

\* the destination of path p exists with the size of the source and a
\* modification time within the tolerance
UpToDate(p) ==
    /\ FileInfo(dstFS, p).exists
    /\ FileInfo(dstFS, p).size = FileInfo(srcFS, p).size
    /\ FileInfo(srcFS, p).mtime - FileInfo(dstFS, p).mtime <= 2
    /\ FileInfo(dstFS, p).mtime - FileInfo(srcFS, p).mtime <= 2

\* C23: a source entry whose destination exists with equal size and a
\* modification time within the tolerance is not put in the plan, and
\* between planning and the end of the run a destination file changes only
\* if its path is the path of a task of the plan
C23_UpToDateUntouched ==
    [][/\ (pc = "plan" /\ pc' # "plan") =>
            \A n \in DOMAIN source_files :
                UpToDate(source_files[n].path) =>
                    \A k \in DOMAIN files_to_copy' :
                        files_to_copy'[k].relative_path #
                            source_files[n].path
       /\ pc \in {"plan", "copying", "copied"} =>
            \A p \in DOMAIN dstFS :
                dstFS'[p] # dstFS[p] =>
                    \E k \in DOMAIN files_to_copy : PathOf(k) = p
    ]_vars

C23_Witness ==
    /\ pc = "done"
    /\ ~opts.dry_run
    /\ Len(source_files) >= 2
    /\ Len(files_to_copy) >= 1
    /\ \A k \in DOMAIN files_to_copy :
        /\ PathOf(k) # 1
        /\ futures[k].success
        /\ futures[k].how = "copy"
    /\ stats.new_files = Len(files_to_copy)
    /\ stats.skipped_files = 0
    /\ \A p \in DOMAIN dstFS : dstFS[p] = srcFS[p]

\* C24: a dry run scans and plans and then returns: from its invocation to
\* its return no destination file changes, the ledger and the state file
\* stay as they were loaded, no save is made, copied_files, copied_size and
\* failed_files stay 0; its skipped_files, new_files and updated_files are
\* what the planning loop computes from the ledger, the scan and the
\* destination, as in a real run
C24_DryRunPlansOnly ==
    [][/\ (pc \in Returned_pcs /\ pc' \in {"scan", "refused"}
                               /\ opts'.dry_run)
          => /\ dstFS' = dstFS
             /\ stateFile' = stateFile
             /\ state'.completed_files = loaded'
       /\ (pc \in {"scan", "plan"} /\ opts.dry_run)
          => /\ pc' \in {"plan", "done", "cancelled"}
             /\ dstFS' = dstFS
             /\ stateFile' = stateFile
             /\ state' = state
             /\ saveCount' = 0
             /\ futures' = <<>>
             /\ stats'.copied_files = 0
             /\ stats'.copied_size = 0
             /\ stats'.failed_files = 0
       /\ (pc = "plan" /\ pc' # "plan" /\ opts.dry_run)
          => LET todo == planned(state, source_files, dstFS)
                 Gone(e) == ~FileInfo(dstFS, e.path).exists
                 Marked(e) == e.path \in state.completed_files
             IN /\ stats'.skipped_files = Len(SelectSeq(source_files, Marked))
                /\ stats'.new_files = Len(SelectSeq(todo, Gone))
                /\ stats'.updated_files =
                        Len(todo) - Len(SelectSeq(todo, Gone))
    ]_vars

C24_Witness ==
    /\ pc = "done"
    /\ opts.dry_run
    /\ state.active
    /\ stats.scanned_files >= 2
    /\ stats.skipped_files = 1
    /\ stats.new_files + stats.updated_files >= 1
    /\ Len(files_to_copy) >= 1
    /\ stats.copied_files = 0
    /\ \E p \in DOMAIN dstFS : dstFS[p] # srcFS[p]

\* C28: planning classifies each entry that is not skipped against the
\* record the destination scan holds under the same relative path, and takes
\* the destination file as absent exactly when the scan has no such key: the
\* plan, new_files and updated_files are those computed from dest_files
C28_PlanFromDestScan ==
    [][(pc = "plan" /\ pc' # "plan")
          => LET todo == planned(state, source_files, dest_files)
                 Gone(e) == e.path \notin DOMAIN dest_files
             IN /\ [k \in 1..Len(files_to_copy') |->
                        files_to_copy'[k].relative_path]
                    = [k \in 1..Len(todo) |-> todo[k].path]
                /\ stats'.new_files = Len(SelectSeq(todo, Gone))
                /\ stats'.updated_files =
                        Len(todo) - Len(SelectSeq(todo, Gone))
    ]_vars

\* C25: for two scanned trees, the paths only in the first, the paths only
\* in the second and the paths in both are pairwise disjoint and together
\* are all the keys of the two trees; a path in both is reported as
\* different exactly when needs_update of the first tree's record against
\* the second tree's is true, and is identical otherwise
C25_ComparePartition ==
    diff.done =>
        LET keys1 == DOMAIN diff.files1
            keys2 == DOMAIN diff.files2
            identical == diff.in_both \ diff.different
        IN /\ diff.only_in_1 \cap diff.only_in_2 = {}
           /\ diff.only_in_1 \cap diff.in_both = {}
           /\ diff.only_in_2 \cap diff.in_both = {}
           /\ diff.only_in_1 \cup diff.only_in_2 \cup diff.in_both
                  = keys1 \cup keys2
           /\ diff.only_in_1 = {p \in keys1 : p \notin keys2}
           /\ diff.only_in_2 = {p \in keys2 : p \notin keys1}
           /\ diff.different \subseteq diff.in_both
           /\ \A p \in diff.in_both :
                 p \in diff.different
                    <=> needs_update(diff.files1[p], diff.files2[p])
           /\ \A p \in identical :
                 /\ diff.files1[p].size = diff.files2[p].size
                 /\ Abs(diff.files1[p].mtime - diff.files2[p].mtime)
                        <= MTIME_TOLERANCE

C25_Witness ==
    /\ diff.done
    /\ diff.only_in_1 # {}
    /\ diff.only_in_2 # {}
    /\ diff.different # {}
    /\ diff.in_both \ diff.different # {}
    /\ \E p \in diff.different :
          diff.files1[p].size = diff.files2[p].size

\* C26: when every concurrent call of increment has returned, each counter
\* is its initial value plus the sum of the amounts passed for it, whatever
\* the interleaving of the threads
C26_NoLostUpdate ==
    (\A t \in DOMAIN inc.thread : inc.thread[t].pc = "returned")
        => \A a \in DOMAIN inc.value :
              inc.value[a] = inc.initial[a] + Passed(a, Len(inc.thread))

C26_Witness ==
    /\ inc.thread # <<>>
    /\ \A t \in DOMAIN inc.thread : inc.thread[t].pc = "returned"
    /\ \A t \in DOMAIN inc.thread : inc.thread[t].attr = "total_size"
    /\ inc.initial["total_size"] = 7
    /\ inc.value["total_size"] >= 7 + NThreads + 1
    /\ inc.value["scanned_files"] = 3

\* C27: a scan of a root path that does not exist returns the empty
\* files_dict, raises nothing, and leaves scanned_files and total_size of
\* the stats object it was given as they were
C27_MissingRootEmpty ==
    (walk.done /\ ~walk.exists)
        => /\ walk.files_dict = {}
           /\ ~walk.raised
           /\ walk.stats = walk.stats0

C27_Witness ==
    /\ walk.done
    /\ ~walk.exists
    /\ walk.drive_path # <<>>
    /\ walk.stats.scanned_files = 3
    /\ walk.stats.total_size = 7

\* C29: a task that was copied returns success only with a destination file
\* of the source's size; a task that leaves a destination of another size
\* returns failure after all 3 attempts; and when the result of a failed
\* copy is consumed, failed_files grows by 1, copied_files stays and the
\* ledger stays as it was
C29_SizeVerified ==
    [][\A k \in DOMAIN futures \cap DOMAIN futures' :
        /\ (Returns(k) /\ futures'[k].how = "copy")
           => /\ futures'[k].success
                    => /\ dstFS'[PathOf(k)].exists
                       /\ dstFS'[PathOf(k)].size = srcFS[PathOf(k)].size
              /\ dstFS'[PathOf(k)].size # srcFS[PathOf(k)].size
                    => /\ ~futures'[k].success
                       /\ futures'[k].attempt = RETRIES
        /\ (Consumes(k) /\ futures'[k].how = "copy"
                        /\ ~futures'[k].success)
           => /\ stats'.failed_files = stats.failed_files + 1
              /\ stats'.copied_files = stats.copied_files
              /\ state'.completed_files = state.completed_files
    ]_vars

\* the copy of a task ended with a destination of another size than the
\* source's, the task is counted as failed and its path is not in the
\* ledger, while another task of the run was copied
C29_Witness ==
    /\ pc \in {"copying", "copied"}
    /\ state.active
    /\ loaded = {}
    /\ stats.failed_files = 1
    /\ stats.copied_files = 1
    /\ \E k \in Consumed :
        /\ futures[k].how = "copy"
        /\ ~futures[k].success
        /\ futures[k].attempt = RETRIES
        /\ dstFS[PathOf(k)].content = "part"
        /\ PathOf(k) \notin state.completed_files

\* C30: in both modes, the step that processes the i-th result of a plan
\* of N tasks reports progress i/N exactly when i is a multiple of 10 or
\* i = N, and no other step of the copy loop reports; the reported counts
\* are strictly increasing, and when the loop has ended the last report is
\* N/N
C30_ProgressReports ==
    [][/\ pc = "copying"
          => LET n == Len(files_to_copy)
             IN IF i' = i + 1
                THEN IF i' % 10 = 0 \/ i' = n
                     THEN progress' =
                            Append(progress, [current |-> i', total |-> n])
                     ELSE progress' = progress
                ELSE progress' = progress
       /\ \A j, k \in DOMAIN progress' :
             j < k => progress'[j].current < progress'[k].current
       /\ pc' = "copied"
          => /\ progress' # <<>>
             /\ progress'[Len(progress')] =
                    [current |-> Len(files_to_copy'),
                     total |-> Len(files_to_copy')]
    ]_vars

C30_Witness ==
    /\ pc = "copied"
    /\ opts.parallel
    /\ Len(files_to_copy) > 10
    /\ Len(progress) = 2
    /\ progress[1] = [current |-> 10, total |-> Len(files_to_copy)]
    /\ progress[2].current = Len(files_to_copy)
    /\ futures[Len(futures)].st = "consumed"
    /\ i = Len(files_to_copy)

\* C31: a run starts with the set that load produced, and no step of the
\* run from the scans to the return removes a path from the in-memory
\* ledger: the set after the step contains the set before it
C31_LedgerGrows ==
    [][/\ (pc \in Returned_pcs /\ pc' \in {"scan", "refused"}
                               /\ opts'.resume)
          => state'.completed_files = load(stateFile)
       /\ pc \in {"scan", "plan", "copying", "copied"}
          => /\ state.completed_files \subseteq state'.completed_files
             /\ loaded \subseteq state'.completed_files
             /\ loaded' = loaded
    ]_vars

\* a resumed run started from a ledger that held a path, and has added
\* another one
C31_Witness ==
    /\ pc \in {"copying", "copied", "done"}
    /\ ~opts.dry_run
    /\ state.active
    /\ loaded # {}
    /\ Added # {}
    /\ loaded \subseteq state.completed_files
    /\ Cardinality(state.completed_files) >= 2

\* C32: in concurrent mode, under every interleaving of the workers'
\* completions, at most one thread is inside a method of the ledger: no
\* two mark_completed calls are in progress at once, and none is in
\* progress while save serializes the set
C32_LedgerOneThread ==
    /\ Cardinality(pool.inside) <= 1
    /\ Cardinality({k \in DOMAIN pool.marked : pool.marked[k] = "in"}) <= 1
    /\ pool.main \in {"in_save", "in_final_save"}
          => \A k \in DOMAIN pool.marked : pool.marked[k] # "in"

\* a mark_completed call is in progress while a worker is still copying,
\* after a save made earlier in the loop
C32_Witness ==
    /\ pool.main = "in_mark"
    /\ pool.inside = {0}
    /\ pool.saves >= 1
    /\ \E j \in DOMAIN pool.task : pool.task[j] = "running"

\* C33: when a scan has returned, scanned_files has grown by the number of
\* entries of the result and total_size by the sum of their sizes, so that
\* with fresh stats they are that number and that sum; a file whose stat
\* fails is not an entry of the result
C33_CountersMatchResult ==
    walk.done =>
        /\ walk.stats.scanned_files =
               walk.stats0.scanned_files + Cardinality(walk.files_dict)
        /\ walk.stats.total_size =
               walk.stats0.total_size + total_size(walk.files_dict)
        /\ walk.files_dict \cap walk.denied = {}
        /\ walk.stats0.scanned_files = 0
              => walk.stats.scanned_files
                    <= Cardinality(walk.tree \ walk.denied)

\* fresh stats, a root that holds a.txt whose stat fails and docs/a.txt:
\* one entry, counted once with its size
C33_Witness ==
    /\ walk.done
    /\ walk.exists
    /\ walk.stats0 = [scanned_files |-> 0, total_size |-> 0]
    /\ walk.denied # {}
    /\ Cardinality(walk.tree) = 2
    /\ Cardinality(walk.files_dict) = 1
    /\ walk.stats = [scanned_files |-> 1, total_size |-> 1]

\* C34: in either mode the copy phase holds one future per task of the
\* plan and no two tasks for one path; a task that has returned is not run
\* again and a result that was consumed is not consumed again; each step of
\* the loop consumes one result, and at every point copied_files +
\* failed_files is the number of results consumed, which is i and is at
\* most the length of the plan; when the loop ends every task was consumed
C34_EachTaskOnce ==
    [][/\ pc' \in {"copying", "copied"}
          => /\ Len(futures') = Len(files_to_copy')
             /\ \A j, k \in DOMAIN files_to_copy' :
                   files_to_copy'[j].relative_path =
                      files_to_copy'[k].relative_path => j = k
             /\ stats'.copied_files + stats'.failed_files
                   = Cardinality({k \in DOMAIN futures' :
                                     futures'[k].st = "consumed"})
             /\ stats'.copied_files + stats'.failed_files = i'
             /\ i' <= Len(files_to_copy')
             /\ pc' = "copied" => i' = Len(files_to_copy')
       /\ pc = "copying"
          => /\ files_to_copy' = files_to_copy
             /\ \A k \in DOMAIN futures :
                   /\ futures[k].st \in {"done", "consumed"}
                         => futures'[k].st \in {"done", "consumed"}
                   /\ futures[k].st = "consumed" => futures'[k] = futures[k]
                   /\ futures[k].st = "running"
                         => futures'[k].st \in {"running", "done"}
             /\ Cardinality({k \in DOMAIN futures : Consumes(k)}) <= 1
             /\ Cardinality({k \in DOMAIN futures : Returns(k)}) <= 1
             /\ \A p \in DOMAIN dstFS :
                   dstFS'[p] # dstFS[p]
                      => \E k \in DOMAIN futures :
                            Returns(k) /\ PathOf(k) = p
    ]_vars

\* the worker pool in the middle of a plan: one result consumed, another
\* returned and not yet consumed
C34_Witness ==
    /\ pc = "copying"
    /\ opts.parallel
    /\ Len(files_to_copy) >= 2
    /\ i = 1
    /\ stats.copied_files + stats.failed_files = 1
    /\ \E j, k \in DOMAIN futures :
          /\ futures[j].st = "consumed"
          /\ futures[k].st = "done"

\* C35: a task with verify_hash for which calculate_hash gives no hash of
\* the source or of the destination does not return as satisfied by the
\* hash comparison; it is counted in copied_files and its path joins the
\* ledger only when it was copied and the copy succeeded
C35_AbsentHashNotSatisfied ==
    [][\A k \in DOMAIN futures \cap DOMAIN futures' :
        LET absent == \/ calculate_hash(FileInfo(srcFS, PathOf(k))) = "None"
                      \/ calculate_hash(FileInfo(dstFS, PathOf(k))) = "None"
        IN /\ (Returns(k) /\ files_to_copy[k].verify_hash
                          /\ FileInfo(dstFS, PathOf(k)).exists /\ absent)
              => /\ futures'[k].how # "hash"
                 /\ futures'[k].success
                       => /\ futures'[k].size = srcFS[PathOf(k)].size
                          /\ dstFS'[PathOf(k)].content =
                                 srcFS[PathOf(k)].content
           /\ (Consumes(k) /\ futures'[k].how # "copy")
              => (absent
                  => /\ stats'.copied_files = stats.copied_files
                     /\ state'.completed_files = state.completed_files)
    ]_vars

\* C36: a copy phase that has begun ends, in either mode: unless the process
\* is killed inside a save, the run reaches its return with every task of
\* the plan consumed and counted in copied_files or failed_files and, with
\* resume on, the last save of the ledger made
C36_CopyPhaseTerminates ==
    (pc = "copying") ~>
        \/ pc = "killed"
        \/ /\ pc = "done"
           /\ i = Len(files_to_copy)
           /\ \A k \in DOMAIN futures : futures[k].st = "consumed"
           /\ stats.copied_files + stats.failed_files = Len(files_to_copy)
           /\ state.active
                => (saveCount >= 1 /\ load(stateFile) = state.completed_files)

\* a parallel run with resume has returned after a task that failed all its
\* attempts and one that was copied, and the state file holds the ledger
C36_Witness ==
    /\ pc = "done"
    /\ ~opts.dry_run
    /\ opts.parallel
    /\ state.active
    /\ Len(files_to_copy) >= 2
    /\ i = Len(files_to_copy)
    /\ stats.failed_files >= 1
    /\ stats.copied_files >= 1
    /\ \E k \in DOMAIN futures : futures[k].attempt = RETRIES
    /\ saveCount >= 1
    /\ load(stateFile) = state.completed_files

\* the paths of the plan
PlanPaths(plan) == {plan[k].relative_path : k \in DOMAIN plan}

C38_LedgerSharedAcrossPairs ==
    [][/\ (pc \in Returned_pcs /\ pc' \in {"scan", "refused"}
           /\ opts'.resume)
          => state'.completed_files = load(stateFile)
       /\ (dest_drive' # dest_drive) => stateFile' = stateFile
       /\ (dest_drive = OTHER_DRIVE /\ state.active
           /\ pc \in {"plan", "copying", "copied"})
          => \A p \in loaded \cap DOMAIN dstFS :
                /\ p \notin PlanPaths(files_to_copy')
                /\ dstFS'[p] = dstFS[p]
    ]_vars

\* a resumed run on the other pair has returned: every path was copied and
\* marked by runs on the first pair, every source entry was skipped, and the
\* destination of the other pair is still empty
C38_Witness ==
    /\ pc = "done"
    /\ opts.resume
    /\ ~opts.dry_run
    /\ dest_drive = OTHER_DRIVE
    /\ loaded = 1..NPaths
    /\ stats.skipped_files = NPaths
    /\ files_to_copy = <<>>
    /\ \A p \in 1..NPaths : srcFS[p] = OtherSource(p) /\ ~dstFS[p].exists

\* C39: a run with resume off has no ledger and leaves the state file as it
\* found it at every step; it skips no source entry, skipped_files stays 0,
\* its plan is the source entries for which needs_update against the
\* destination file holds, in scan order, and it makes no save
C39_ResumeOffNoLedger ==
    [][/\ (pc \in Returned_pcs /\ pc' \in {"scan", "refused"}
           /\ ~opts'.resume)
          => /\ state' = NoState
             /\ stateFile' = stateFile
       /\ (pc \in {"scan", "plan", "copying", "copied"} /\ ~opts.resume)
          => /\ stateFile' = stateFile
             /\ state' = NoState
             /\ saveCount' = 0
             /\ stats'.skipped_files = 0
       /\ (pc = "plan" /\ pc' # "plan" /\ ~opts.resume)
          => LET Needs(e) == needs_update(e, FileInfo(dstFS, e.path))
                 todo == SelectSeq(source_files, Needs)
             IN /\ Len(files_to_copy') = Len(todo)
                /\ \A k \in DOMAIN todo :
                      files_to_copy'[k].relative_path = todo[k].path
    ]_vars

\* a run with resume off has returned after copying the first path, which
\* the state file marks completed; the state file is as it was
C39_Witness ==
    /\ pc = "done"
    /\ ~opts.resume
    /\ ~opts.dry_run
    /\ stateFile = [kind |-> "valid", files |-> {1}]
    /\ 1 \in PlanPaths(files_to_copy)
    /\ stats.copied_files >= 1
    /\ stats.skipped_files = 0
    /\ dstFS[1] = srcFS[1]
    /\ saveCount = 0

====
